---- MODULE Spec2Model ----
(***************************************************************************)
(* Lecture_Notebooks/TableFITS/Tables.ipynb: the table walkthrough, read   *)
(* as a state machine.  The state is the Jupyter kernel's namespace, the   *)
(* output area of the cell that ran last, and the files of the working     *)
(* directory.  One action per code cell, taken top to bottom.              *)
(*                                                                         *)
(* The notebook only calls astropy, numpy and pandas; what those calls do  *)
(* is modelled by the operators of the first half of the module (Join,     *)
(* MaskedMean, GroupBy, Aggregate, ToPandas, FromPandas, ...), written     *)
(* from the notebook's prose and the glossary of the specification.        *)
(*                                                                         *)
(* Numbers.  A float is kept as a fixed-point integer: fluxes, magnitudes  *)
(* and coordinates in tenths (1.2 is 12), log10 values in thousandths.     *)
(* An int column keeps plain integers, so int -> float is v * FloatScale.  *)
(***************************************************************************)
EXTENDS Integers, Sequences, FiniteSets, TLC

VARIABLES
    pc,              \* the code cell that runs next, 1 .. LastCell + 1
    err,             \* "none", or the exception that stopped the run
    bound,           \* the names bound in the kernel's namespace
    out,             \* the output area of the cell that ran last
    fs,              \* the working directory: file name -> [exists, data]
    written,         \* the files some cell has written to
    readfiles,       \* the files some cell has read
    t, mask, t2, t3, t4,
    t_2mass, pd_2mass, t_pd, excel_data,
    master_sources, obs_sources,
    sources, g_sources, g_sources_mean, g_sources_full

kernel == <<t, mask, t2, t3, t4, t_2mass, pd_2mass, t_pd, excel_data,
            master_sources, obs_sources>>
exercise == <<sources, g_sources, g_sources_mean, g_sources_full>>
files == <<fs, written, readfiles>>
vars == <<pc, err, bound, out, kernel, exercise, files>>

(***************************************************************************)
(* Bounds of the model.                                                    *)
(***************************************************************************)
MaxCatRows == 2      \* rows of data/2mass.tbl
MaxObs == 3          \* rows of data/cdfs_obs_sources.fits
MaxMsid == 2         \* master sources of data/cdfs_master_sources.fits

(***************************************************************************)
(* Values, cells, columns, tables.                                         *)
(***************************************************************************)
FloatScale == 10

\* Lexicographic order of the strings that occur as key values.
StrOrder == <<"", "curly", "groucho", "joe", "larry", "moe", "shemp",
              "src1", "src2", "src3", "src4", "x", "y", "z">>

StrRank(s) == CHOOSE i \in DOMAIN StrOrder : StrOrder[i] = s

Ord(dtype, v) == IF dtype = "str" THEN StrRank(v) ELSE v

ZeroOf(dtype) == IF dtype = "str" THEN "" ELSE 0

Cell(v) == [v |-> v, m |-> FALSE]

MaskedCell(dtype) == [v |-> ZeroOf(dtype), m |-> TRUE]

\* A column's description: its name, dtype, number of dimensions of one
\* element plus one (a scalar column has ndim 1), format and fill_value
\* (<< >>: the library's default).
Col(name, dtype) ==
    [name |-> name, dtype |-> dtype, ndim |-> 1, format |-> "", fill |-> << >>]

EmptyTable == [cols |-> << >>, rows |-> << >>, masked |-> FALSE]

NameSet(T) == {T.cols[i].name : i \in DOMAIN T.cols}

ColOf(T, name) == T.cols[CHOOSE i \in DOMAIN T.cols : T.cols[i].name = name]

ColCells(T, name) == [i \in DOMAIN T.rows |-> T.rows[i][name]]

\* Table(columns, names=...): the rows of a table given column by column.
MkTable(cols, data, masked) ==
    [cols |-> cols,
     rows |-> [i \in DOMAIN data[1] |->
                 [n \in {cols[j].name : j \in DOMAIN cols} |->
                    Cell(data[CHOOSE j \in DOMAIN cols : cols[j].name = n][i])]],
     masked |-> masked]

\* t[name] = values: a new column at the end (the notebook never replaces one).
AddColumn(T, col, cells) ==
    [cols |-> Append(T.cols, col),
     rows |-> [i \in DOMAIN cells |->
                 [n \in NameSet(T) \cup {col.name} |->
                    IF n = col.name THEN cells[i] ELSE T.rows[i][n]]],
     masked |-> T.masked]

\* t.add_row(vals): one row at the end, its values in column order.
AddRow(T, vals) ==
    [T EXCEPT !.rows = Append(T.rows,
        [n \in NameSet(T) |->
           Cell(vals[CHOOSE j \in DOMAIN T.cols : T.cols[j].name = n])])]

\* rows[i] for the i with sel[i], in order.
Pick(rows, sel) ==
    LET F[i \in 0..Len(rows)] ==
            IF i = 0 THEN << >>
            ELSE IF sel[i] THEN Append(F[i-1], rows[i]) ELSE F[i-1]
    IN F[Len(rows)]

\* t[mask]: a new table of the rows the boolean array selects.
SelectRows(T, sel) == [T EXCEPT !.rows = Pick(T.rows, sel)]

\* t[a:b] with Python's half-open, 0-based bounds.
SliceRows(T, a, b) == [T EXCEPT !.rows = SubSeq(T.rows, a + 1, b)]

\* t[[i, j, ...]] with 0-based indices.
TakeRows(T, idx) == [T EXCEPT !.rows = [k \in DOMAIN idx |-> T.rows[idx[k] + 1]]]

\* column > x, element by element.
GreaterThan(cells, x) == [i \in DOMAIN cells |-> cells[i].v > x]

\* floor(1000 * log10(x / 10)) for the fluxes of the walkthrough; outside
\* them, the whole part only.
Log10Milli(x) ==
    CASE x = 12 -> 79
      [] x = 22 -> 342
      [] x = 31 -> 491
      [] x = 43 -> 633
      [] x = 101 -> 1004
      [] OTHER -> IF x < 10 THEN -1000 ELSE IF x < 100 THEN 0 ELSE 1000

Log10(cells) == [i \in DOMAIN cells |-> [v |-> Log10Milli(cells[i].v), m |-> cells[i].m]]

SetFormat(T, name, f) ==
    [T EXCEPT !.cols = [i \in DOMAIN T.cols |->
        IF T.cols[i].name = name THEN [T.cols[i] EXCEPT !.format = f] ELSE T.cols[i]]]

SetFill(T, name, v) ==
    [T EXCEPT !.cols = [i \in DOMAIN T.cols |->
        IF T.cols[i].name = name THEN [T.cols[i] EXCEPT !.fill = <<v>>] ELSE T.cols[i]]]

SetMask(T, name, m) ==
    [T EXCEPT !.rows = [i \in DOMAIN T.rows |->
        [T.rows[i] EXCEPT ![name] = [v |-> T.rows[i][name].v, m |-> m[i]]]]]

\* numpy's default fill values: 1e20 for a float (beyond the model's
\* integers, so the largest one stands for it), 999999 for an int, 'N/A'.
DefaultFill(dtype) ==
    IF dtype = "str" THEN "N/A" ELSE IF dtype = "int" THEN 999999 ELSE 2147483647

\* t.filled(): a new, unmasked table; every masked value replaced by its
\* column's fill_value.
Filled(T) ==
    [cols |-> T.cols,
     rows |-> [i \in DOMAIN T.rows |->
                 [n \in NameSet(T) |->
                    IF T.rows[i][n].m
                    THEN Cell(IF ColOf(T, n).fill = << >>
                              THEN DefaultFill(ColOf(T, n).dtype)
                              ELSE ColOf(T, n).fill[1])
                    ELSE T.rows[i][n]]],
     masked |-> FALSE]

\* np.array(t): a structured array holding a copy of the rows' values.
NpArray(T) ==
    [names |-> [i \in DOMAIN T.cols |-> T.cols[i].name],
     recs |-> [i \in DOMAIN T.rows |-> [n \in NameSet(T) |-> T.rows[i][n].v]]]

(***************************************************************************)
(* join(left, right, keys, join_type).                                     *)
(***************************************************************************)
RECURSIVE SeqLess(_, _)
SeqLess(a, b) ==
    IF Len(a) = 0 THEN FALSE
    ELSE Head(a) < Head(b) \/ (Head(a) = Head(b) /\ SeqLess(Tail(a), Tail(b)))

\* A row's key as integers that order as the key's values do.
KeyOrd(T, row, keys) ==
    [i \in DOMAIN keys |-> Ord(ColOf(T, keys[i]).dtype, row[keys[i]].v)]

\* The keys of a set in ascending order.
RECURSIVE SortKeys(_)
SortKeys(S) ==
    IF S = {} THEN << >>
    ELSE LET lo == CHOOSE k \in S : \A o \in S : ~SeqLess(o, k)
         IN <<lo>> \o SortKeys(S \ {lo})

\* The indices of the rows of T with key k, ascending.
RowsWithKey(T, keys, k) ==
    LET F[i \in 0..Len(T.rows)] ==
            IF i = 0 THEN << >>
            ELSE IF KeyOrd(T, T.rows[i], keys) = k THEN Append(F[i-1], i) ELSE F[i-1]
    IN F[Len(T.rows)]

\* The (left row, right row) pairs of one key value; 0 stands for "no row".
PairsOfKey(li, ri, jtype) ==
    IF Len(li) > 0 /\ Len(ri) > 0
    THEN [n \in 1..(Len(li) * Len(ri)) |->
            <<li[((n - 1) \div Len(ri)) + 1], ri[((n - 1) % Len(ri)) + 1]>>]
    ELSE IF Len(li) > 0
    THEN IF jtype \in {"outer", "left"} THEN [n \in DOMAIN li |-> <<li[n], 0>>] ELSE << >>
    ELSE IF jtype \in {"outer", "right"} THEN [n \in DOMAIN ri |-> <<0, ri[n]>>] ELSE << >>

\* All pairs of the join, sorted by key.
JoinPairs(L, R, keys, jtype) ==
    LET ks == SortKeys({KeyOrd(L, L.rows[i], keys) : i \in DOMAIN L.rows}
                       \cup {KeyOrd(R, R.rows[i], keys) : i \in DOMAIN R.rows})
        F[i \in 0..Len(ks)] ==
            IF i = 0 THEN << >>
            ELSE F[i-1] \o PairsOfKey(RowsWithKey(L, keys, ks[i]),
                                      RowsWithKey(R, keys, ks[i]), jtype)
    IN F[Len(ks)]

\* The output columns: the left table's, then the right table's that are
\* not keys; a name the two share outside the keys gets _1 and _2.
JoinCols(L, R, keys) ==
    LET keyset == {keys[i] : i \in DOMAIN keys}
        common == (NameSet(L) \cap NameSet(R)) \ keyset
        lc == [i \in DOMAIN L.cols |->
                 [side |-> IF L.cols[i].name \in keyset THEN "key" ELSE "left",
                  src |-> L.cols[i].name,
                  col |-> [L.cols[i] EXCEPT !.name =
                             IF @ \in common THEN @ \o "_1" ELSE @]]]
        rk == SelectSeq(R.cols, LAMBDA c : c.name \notin keyset)
        rc == [i \in DOMAIN rk |->
                 [side |-> "right",
                  src |-> rk[i].name,
                  col |-> [rk[i] EXCEPT !.name =
                             IF @ \in common THEN @ \o "_2" ELSE @]]]
    IN lc \o rc

JoinCell(L, R, oc, p) ==
    CASE oc.side = "key" ->
            IF p[1] # 0 THEN L.rows[p[1]][oc.src] ELSE R.rows[p[2]][oc.src]
      [] oc.side = "left" ->
            IF p[1] # 0 THEN L.rows[p[1]][oc.src] ELSE MaskedCell(oc.col.dtype)
      [] oc.side = "right" ->
            IF p[2] # 0 THEN R.rows[p[2]][oc.src] ELSE MaskedCell(oc.col.dtype)

Join(L, R, keys, jtype) ==
    LET ocs == JoinCols(L, R, keys)
        ps == JoinPairs(L, R, keys, jtype)
    IN [cols |-> [i \in DOMAIN ocs |-> ocs[i].col],
        rows |-> [n \in DOMAIN ps |->
                    [c \in {ocs[i].col.name : i \in DOMAIN ocs} |->
                       JoinCell(L, R,
                                ocs[CHOOSE i \in DOMAIN ocs : ocs[i].col.name = c],
                                ps[n])]],
        masked |-> L.masked \/ R.masked
                   \/ \E n \in DOMAIN ps : ps[n][1] = 0 \/ ps[n][2] = 0]

(***************************************************************************)
(* np.mean of a column; group_by and aggregate.                            *)
(***************************************************************************)
RECURSIVE SumCells(_)
SumCells(cells) == IF Len(cells) = 0 THEN 0 ELSE Head(cells).v + SumCells(Tail(cells))

Unmasked(cells) == SelectSeq(cells, LAMBDA c : ~c.m)

\* The mean of a (masked) column: over its unmasked values; masked when
\* there is none.
MaskedMean(cells) ==
    IF Len(Unmasked(cells)) = 0 THEN MaskedCell("float")
    ELSE Cell(SumCells(Unmasked(cells)) \div Len(Unmasked(cells)))

\* The row indices of T ordered by key, rows of one key in their old order.
SortedIndex(T, keys) ==
    LET ks == SortKeys({KeyOrd(T, T.rows[i], keys) : i \in DOMAIN T.rows})
        F[i \in 0..Len(ks)] ==
            IF i = 0 THEN << >> ELSE F[i-1] \o RowsWithKey(T, keys, ks[i])
    IN F[Len(ks)]

\* t.group_by(keys): the rows sorted by key, and the group boundaries
\* (0-based: the first row of each group, then the table's length).
GroupBy(T, keys) ==
    LET idx == SortedIndex(T, keys)
        rows == [i \in DOMAIN idx |-> T.rows[idx[i]]]
        starts == SelectSeq([i \in DOMAIN rows |-> i - 1],
                     LAMBDA i : i = 0 \/ KeyOrd(T, rows[i], keys) # KeyOrd(T, rows[i + 1], keys))
    IN [table |-> [T EXCEPT !.rows = rows],
        keys |-> keys,
        indices |-> Append(starts, Len(rows))]

\* np.diff(a).
Diff(a) == [i \in 1..(Len(a) - 1) |-> a[i + 1] - a[i]]

\* groups.aggregate(np.mean): one row per group; a key column keeps the
\* group's key, a numeric column gets the group's mean (as a float), and a
\* column np.mean cannot take (a string column) is dropped.
Aggregate(G) ==
    LET T == G.table
        keyset == {G.keys[i] : i \in DOMAIN G.keys}
        kept == SelectSeq(T.cols, LAMBDA c : c.name \in keyset \/ c.dtype \in {"int", "float"})
        ocols == [i \in DOMAIN kept |->
                    IF kept[i].name \in keyset THEN kept[i]
                    ELSE [kept[i] EXCEPT !.dtype = "float"]]
        scale(c) == IF c.dtype = "int" THEN FloatScale ELSE 1
        grp(g) == SubSeq(T.rows, G.indices[g] + 1, G.indices[g + 1])
    IN [cols |-> ocols,
        rows |-> [g \in 1..(Len(G.indices) - 1) |->
                    [n \in {kept[i].name : i \in DOMAIN kept} |->
                       IF n \in keyset THEN grp(g)[1][n]
                       ELSE LET cells == [i \in DOMAIN grp(g) |->
                                            [v |-> grp(g)[i][n].v * scale(ColOf(T, n)),
                                             m |-> grp(g)[i][n].m]]
                            IN MaskedMean(cells)]],
        masked |-> T.masked]

(***************************************************************************)
(* Table.to_pandas() and Table.from_pandas().  A DataFrame has columns     *)
(* [name, dtype] and rows name -> [v, nan].                                *)
(***************************************************************************)
HasMasked(T, name) == \E i \in DOMAIN T.rows : T.rows[i][name].m

HasMultiDim_Never(T) == FALSE

HasMultiDim(T) == \E i \in DOMAIN T.cols : T.cols[i].ndim > 1

\* The dtype of a table column in the DataFrame.
PandasDtype(T, c) ==
    IF c.dtype = "str" THEN "object"
    ELSE IF HasMasked(T, c.name) THEN "float"
    ELSE c.dtype

\* One value on its way into the DataFrame: NaN when masked; an int of a
\* column that became float is converted.
PandasCell(T, c, cell) ==
    IF cell.m THEN [v |-> ZeroOf(c.dtype), nan |-> TRUE]
    ELSE [v |-> IF c.dtype = "int" /\ PandasDtype(T, c) = "float"
                THEN cell.v * FloatScale ELSE cell.v,
          nan |-> FALSE]

\* t.to_pandas(): the DataFrame, or the error of a multi-dimensional column.
ToPandas(T) ==
    IF HasMultiDim(T) THEN [ok |-> FALSE, error |-> "ValueError"]
    ELSE [ok |-> TRUE,
          frame |-> [cols |-> [i \in DOMAIN T.cols |->
                                 [name |-> T.cols[i].name,
                                  dtype |-> PandasDtype(T, T.cols[i])]],
                     rows |-> [r \in DOMAIN T.rows |->
                                 [n \in NameSet(T) |->
                                    PandasCell(T, ColOf(T, n), T.rows[r][n])]]]]

\* Table.from_pandas(frame): NaN becomes a masked value; an object column
\* of strings becomes a string column.
FromPandas(F) ==
    LET dt(c) == IF c.dtype = "object" THEN "str" ELSE c.dtype
    IN [cols |-> [i \in DOMAIN F.cols |-> Col(F.cols[i].name, dt(F.cols[i]))],
        rows |-> [r \in DOMAIN F.rows |->
                    [n \in {F.cols[i].name : i \in DOMAIN F.cols} |->
                       LET c == F.cols[CHOOSE i \in DOMAIN F.cols : F.cols[i].name = n]
                       IN IF F.rows[r][n].nan THEN MaskedCell(dt(c))
                          ELSE Cell(F.rows[r][n].v)]],
        masked |-> \E r \in DOMAIN F.rows :
                     \E i \in DOMAIN F.cols : F.rows[r][F.cols[i].name].nan]

EmptyFrame == [cols |-> << >>, rows |-> << >>]

(***************************************************************************)
(* The files.  An input file's content is whatever the reader finds in it: *)
(* one of the tables below.                                                *)
(***************************************************************************)
InputFiles == {"data/2mass.tbl", "data/cdfs_master_sources.fits", "data/cdfs_obs_sources.fits"}

OutputFiles == {"test.fits", "test.vot", "2mass.xls"}

Files == InputFiles \cup OutputFiles

\* A file that is not there, and one that was there before the run (its
\* content is not the run's: data is empty).
Absent == [exists |-> FALSE, data |-> << >>]

Present == [exists |-> TRUE, data |-> << >>]

Stored(content) == [exists |-> TRUE, data |-> <<content>>]

\* data/2mass.tbl (IPAC): an int, a float and a string column, scalar all;
\* any value may be null, which the reader masks.
CatCols == <<Col("cntr", "int"), Col("designation", "str"),
             Col("j_m", "float"), Col("h_m", "float")>>

CatNames == {CatCols[i].name : i \in DOMAIN CatCols}

\* The columns in which the model's files have nulls.
CatNullable == CatNames \ {"h_m"}

CatValue(name, i) ==
    CASE name = "cntr" -> i
      [] name = "j_m" -> 120 + i
      [] name = "h_m" -> 110 + i
      [] name = "designation" -> StrOrder[7 + i]

CatTableOf(nulls) ==
    [cols |-> CatCols,
     rows |-> [i \in DOMAIN nulls |->
                 [n \in CatNames |->
                    IF n \in CatNullable /\ nulls[i][n] THEN MaskedCell(ColOf([cols |-> CatCols], n).dtype)
                    ELSE Cell(CatValue(n, i))]],
     masked |-> \E i \in DOMAIN nulls : \E n \in CatNullable : nulls[i][n]]

CatTables ==
    UNION {{CatTableOf(nulls) : nulls \in [1..n -> [CatNullable -> BOOLEAN]]} : n \in 1..MaxCatRows}

\* The same tables with any of their columns multi-dimensional (which an
\* IPAC file cannot hold, and a FITS file can).
AnyTables ==
    {[T EXCEPT !.cols = [i \in DOMAIN T.cols |-> [T.cols[i] EXCEPT !.ndim = nd[i]]]] :
        T \in CatTables, nd \in [DOMAIN CatCols -> {1, 2}]}

\* data/cdfs_master_sources.fits: one row per master source.
MasterCols == <<Col("msid", "int"), Col("name", "str"), Col("ra", "float"), Col("dec", "float")>>

MasterTable ==
    MkTable(MasterCols,
            <<[i \in 1..MaxMsid |-> i],
              [i \in 1..MaxMsid |-> StrOrder[7 + i]],
              [i \in 1..MaxMsid |-> 530 + i],
              [i \in 1..MaxMsid |-> -(270 + i)]>>,
            FALSE)

\* data/cdfs_obs_sources.fits: one row per detection, in any order; a
\* detection may belong to no master source of the file (msid MaxMsid + 1),
\* and at least one belongs to one.
ObsCols == <<Col("obsid", "int"), Col("targname", "str"),
             Col("flux_aper_b", "float"), Col("msid", "int")>>

ObsTableOf(ids) ==
    MkTable(ObsCols,
            <<[i \in DOMAIN ids |-> 580 + i],
              [i \in DOMAIN ids |-> "CDFS"],
              [i \in DOMAIN ids |-> 7 * i * i],
              ids>>,
            FALSE)

ObsTables ==
    UNION {{ObsTableOf(ids) : ids \in {s \in [1..n -> 1..(MaxMsid + 1)] :
                                          \E i \in 1..n : s[i] <= MaxMsid}} :
           n \in 1..MaxObs}

(***************************************************************************)
(* The kernel before the first cell.                                       *)
(***************************************************************************)
NoOutput == [kind |-> "none"]

NoGroups == [table |-> EmptyTable, keys |-> << >>, indices |-> <<0>>]

LastCell == 44

\* The input files may be missing; the output files are all there from an
\* earlier run, or none is.
InitFiles ==
    {[f \in Files |-> IF f \in ins \/ f \in outs THEN Present ELSE Absent] :
        ins \in SUBSET InputFiles, outs \in {{}, OutputFiles}}

InitKernel ==
    /\ err = "none"
    /\ out = NoOutput
    /\ written = {}
    /\ readfiles = {}
    /\ t = EmptyTable /\ mask = << >> /\ t2 = EmptyTable /\ t3 = EmptyTable
    /\ t4 = EmptyTable /\ pd_2mass = EmptyFrame
    /\ t_pd = EmptyTable /\ excel_data = EmptyTable
    /\ master_sources = EmptyTable /\ obs_sources = EmptyTable
    /\ sources = EmptyTable /\ g_sources = NoGroups
    /\ g_sources_mean = EmptyTable /\ g_sources_full = EmptyTable

Init ==
    /\ pc = 1
    /\ bound = {}
    /\ fs \in InitFiles
    /\ t_2mass = EmptyTable
    /\ InitKernel

\* Cell k is next and no earlier cell has raised.
Runs(k) == pc = k /\ err = "none"

\* A cell that only shows a value.
Show(k, v) ==
    /\ Runs(k)
    /\ pc' = k + 1
    /\ out' = v
    /\ UNCHANGED <<err, bound, kernel, exercise, files>>

Raise_Caught(e) ==
    /\ err' = err
    /\ out' = NoOutput
    /\ pc' = pc + 1

\* A cell that raises: the run stops at it.
Raise(e) ==
    /\ err' = e
    /\ out' = [kind |-> "traceback", val |-> e]
    /\ UNCHANGED pc

(***************************************************************************)
(* The code cells, top to bottom.                                          *)
(***************************************************************************)
Cell01_Imports ==
    /\ Runs(1)
    /\ pc' = 2
    /\ bound' = bound \cup {"print_function", "division", "Table", "np",
                            "matplotlib", "style", "plt"}
    /\ out' = NoOutput
    /\ UNCHANGED <<err, kernel, exercise, files>>

\* t = Table(); t['name'] = [...]; t['flux'] = [...]
StoogesTable ==
    AddColumn(
        AddColumn(EmptyTable, Col("name", "str"),
                  <<Cell("larry"), Cell("curly"), Cell("moe"), Cell("shemp")>>),
        Col("flux", "float"),
        <<Cell(12), Cell(22), Cell(31), Cell(43)>>)

Cell02_CreateTable ==
    /\ Runs(2)
    /\ pc' = 3
    /\ t' = StoogesTable
    /\ bound' = bound \cup {"t"}
    /\ out' = NoOutput
    /\ UNCHANGED <<err, mask, t2, t3, t4, t_2mass, pd_2mass, t_pd, excel_data,
                   master_sources, obs_sources, exercise, files>>

Cell03_ShowTable == Show(3, [kind |-> "table", val |-> t])

Cell04_PrintTable == Show(4, [kind |-> "text", val |-> t])

Cell05_Colnames ==
    Show(5, [kind |-> "list", val |-> [i \in DOMAIN t.cols |-> t.cols[i].name]])

Cell06_Dtype ==
    Show(6, [kind |-> "dtype",
             val |-> [i \in DOMAIN t.cols |-> <<t.cols[i].name, t.cols[i].dtype>>]])

Cell07_ShowInNotebook == Show(7, [kind |-> "widget", val |-> t])

Cell08_FluxColumn == Show(8, [kind |-> "column", val |-> ColCells(t, "flux")])

Cell09_FluxElement == Show(9, [kind |-> "value", val |-> ColCells(t, "flux")[1 + 1]])

Cell10_Row == Show(10, [kind |-> "row", val |-> t.rows[1 + 1]])

Cell11_RowElement == Show(11, [kind |-> "value", val |-> t.rows[1 + 1]["flux"]])

Cell12_Slice == Show(12, [kind |-> "table", val |-> SliceRows(t, 1, 3)])

Cell13_IndexList == Show(13, [kind |-> "table", val |-> TakeRows(t, <<1, 3>>)])

\* 3.0, in tenths.
FluxThreshold == 30

\* t['flux'] > 3.0
HighFlux_Below == [i \in DOMAIN t.rows |-> t.rows[i]["flux"].v < FluxThreshold]

HighFlux == GreaterThan(ColCells(t, "flux"), FluxThreshold)

Cell14_BooleanMask ==
    /\ Runs(14)
    /\ pc' = 15
    /\ mask' = HighFlux
    /\ out' = [kind |-> "table", val |-> SelectRows(t, mask')]
    /\ bound' = bound \cup {"mask"}
    /\ UNCHANGED <<err, t, t2, t3, t4, t_2mass, pd_2mass, t_pd, excel_data,
                   master_sources, obs_sources, exercise, files>>

\* t.add_row(('joe', 10.1)); t['logflux'] = np.log10(t['flux'])
WithJoeAndLogflux ==
    LET added == AddRow(t, <<"joe", 101>>)
    IN AddColumn(added, Col("logflux", "float"), Log10(ColCells(added, "flux")))

Cell15_AddRowAndColumn ==
    /\ Runs(15)
    /\ pc' = 16
    /\ t' = WithJoeAndLogflux
    /\ out' = [kind |-> "table", val |-> t']
    /\ UNCHANGED <<err, bound, mask, t2, t3, t4, t_2mass, pd_2mass, t_pd, excel_data,
                   master_sources, obs_sources, exercise, files>>

Cell16_SetFormat ==
    /\ Runs(16)
    /\ pc' = 17
    /\ t' = SetFormat(SetFormat(t, "flux", "%.2f"), "logflux", "%.2f")
    /\ out' = [kind |-> "table", val |-> t']
    /\ UNCHANGED <<err, bound, mask, t2, t3, t4, t_2mass, pd_2mass, t_pd, excel_data,
                   master_sources, obs_sources, exercise, files>>

Cell17_NpArray == Show(17, [kind |-> "ndarray", val |-> NpArray(t)])

\* t2 = Table([['x', 'y', 'z'], [1.1, 2.2, 3.3]], names=['name', 'value'], masked=True)
XyzTable ==
    MkTable(<<Col("name", "str"), Col("value", "float")>>,
            <<(<<"x", "y", "z">>), (<<11, 22, 33>>)>>, TRUE)

Cell18_MaskedTable ==
    /\ Runs(18)
    /\ pc' = 19
    /\ t2' = XyzTable
    /\ bound' = bound \cup {"t2"}
    /\ out' = [kind |-> "table", val |-> t2']
    /\ UNCHANGED <<err, t, mask, t3, t4, t_2mass, pd_2mass, t_pd, excel_data,
                   master_sources, obs_sources, exercise, files>>

Cell19_SetMask ==
    /\ Runs(19)
    /\ pc' = 20
    /\ t2' = SetMask(t2, "value", <<FALSE, TRUE, FALSE>>)
    /\ out' = NoOutput
    /\ UNCHANGED <<err, bound, t, mask, t3, t4, t_2mass, pd_2mass, t_pd, excel_data,
                   master_sources, obs_sources, exercise, files>>

Cell20_PrintMasked == Show(20, [kind |-> "text", val |-> t2])

\* -99, in tenths.
FillValue == -990

Cell21_Filled_InPlace ==
    /\ Runs(21)
    /\ pc' = 22
    /\ t2' = Filled(SetFill(t2, "value", FillValue))
    /\ out' = [kind |-> "text", val |-> t2']
    /\ UNCHANGED <<err, bound, t, mask, t3, t4, t_2mass, pd_2mass, t_pd, excel_data,
                   master_sources, obs_sources, exercise, files>>

Cell21_Filled ==
    /\ Runs(21)
    /\ pc' = 22
    /\ t2' = SetFill(t2, "value", FillValue)
    /\ out' = [kind |-> "text", val |-> Filled(t2')]
    /\ UNCHANGED <<err, bound, t, mask, t3, t4, t_2mass, pd_2mass, t_pd, excel_data,
                   master_sources, obs_sources, exercise, files>>

Cell22_ImportJoin_Skipped ==
    /\ Runs(22)
    /\ pc' = 23
    /\ out' = NoOutput
    /\ UNCHANGED <<err, bound, kernel, exercise, files>>

Cell22_ImportJoin ==
    /\ Runs(22)
    /\ pc' = 23
    /\ bound' = bound \cup {"join"}
    /\ out' = NoOutput
    /\ UNCHANGED <<err, kernel, exercise, files>>

Cell23_RecallTable == Show(23, [kind |-> "table", val |-> t])

\* t2 = Table(); t2['name'] = [...]; t2['flux2'] = [...]
Flux2Table ==
    AddColumn(
        AddColumn(EmptyTable, Col("name", "str"),
                  <<Cell("larry"), Cell("moe"), Cell("groucho")>>),
        Col("flux2", "float"),
        <<Cell(14), Cell(35), Cell(86)>>)

Cell24_SecondTable ==
    /\ Runs(24)
    /\ pc' = 25
    /\ t2' = Flux2Table
    /\ out' = NoOutput
    /\ UNCHANGED <<err, bound, t, mask, t3, t4, t_2mass, pd_2mass, t_pd, excel_data,
                   master_sources, obs_sources, exercise, files>>

\* join(t, t2, keys=['name'], join_type='outer')
OuterJoinCall_Left == Join(t, t2, <<"name">>, "left")

OuterJoinCall == Join(t, t2, <<"name">>, "outer")

Cell25_OuterJoin ==
    /\ Runs(25)
    /\ pc' = 26
    /\ t3' = OuterJoinCall
    /\ bound' = bound \cup {"t3"}
    /\ out' = [kind |-> "text", val |-> t3']
    /\ UNCHANGED <<err, t, mask, t2, t4, t_2mass, pd_2mass, t_pd, excel_data,
                   master_sources, obs_sources, exercise, files>>

\* np.mean(t3['flux2'])
MeanFlux2_OfFilled ==
    Cell(SumCells(ColCells(t3, "flux2")) \div Len(ColCells(t3, "flux2")))

MeanFlux2 == MaskedMean(ColCells(t3, "flux2"))

Cell26_Mean == Show(26, [kind |-> "value", val |-> MeanFlux2])

\* join(t, t2, keys=['name'], join_type='inner')
InnerJoinCall_Right == Join(t, t2, <<"name">>, "right")

InnerJoinCall == Join(t, t2, <<"name">>, "inner")

Cell27_InnerJoin == Show(27, [kind |-> "table", val |-> InnerJoinCall])

\* table.write(name, overwrite=True): the file holds the table, whether or
\* not it was there.  (What the format does to a masked value is not
\* modelled; no cell looks into the table read back.)
WriteTable(name, fmt, T) == [fs EXCEPT ![name] = Stored([fmt |-> fmt, table |-> T])]

Cell28_WriteFits ==
    /\ Runs(28)
    /\ pc' = 29
    /\ fs' = WriteTable("test.fits", "fits", t3)
    /\ written' = written \cup {"test.fits"}
    /\ out' = NoOutput
    /\ UNCHANGED <<err, bound, kernel, exercise, readfiles>>

\* t3.write('test.vot', format='votable', overwrite=True); !more test.vot
VotableName_Fits == "test.fits"

VotableName == "test.vot"

Cell29_WriteVotable ==
    /\ Runs(29)
    /\ pc' = 30
    /\ fs' = WriteTable(VotableName, "votable", t3)
    /\ written' = written \cup {VotableName}
    /\ readfiles' = readfiles \cup {"test.vot"}
    /\ out' = [kind |-> "shell", val |-> fs'["test.vot"]]
    /\ UNCHANGED <<err, bound, kernel, exercise>>

\* t4 = Table.read('test.fits'); t4
Cell30_ReadFits ==
    /\ Runs(30)
    /\ IF fs["test.fits"].exists /\ fs["test.fits"].data # << >>
       THEN /\ pc' = 31
            /\ t4' = fs["test.fits"].data[1].table
            /\ bound' = bound \cup {"t4"}
            /\ out' = [kind |-> "table", val |-> t4']
            /\ readfiles' = readfiles \cup {"test.fits"}
            /\ UNCHANGED err
       ELSE /\ Raise("FileNotFoundError")
            /\ UNCHANGED <<t4, bound, readfiles>>
    /\ UNCHANGED <<t, mask, t2, t3, t_2mass, pd_2mass, t_pd, excel_data,
                   master_sources, obs_sources, exercise, fs, written>>

Cell31_Help == Show(31, [kind |-> "help", val |-> "Table.read"])

\* !head data/2mass.tbl: a shell command; a missing file is head's
\* message in the output, not an exception of the cell.
Cell32_Head ==
    /\ Runs(32)
    /\ pc' = 33
    /\ out' = [kind |-> "shell", val |-> fs["data/2mass.tbl"].exists]
    /\ readfiles' = IF fs["data/2mass.tbl"].exists
                    THEN readfiles \cup {"data/2mass.tbl"} ELSE readfiles
    /\ UNCHANGED <<err, bound, kernel, exercise, fs, written>>

\* t_2mass = Table.read("data/2mass.tbl", format="ascii.ipac"); t_2mass.show_in_notebook()
Cell33_ReadIpac ==
    /\ Runs(33)
    /\ IF fs["data/2mass.tbl"].exists
       THEN /\ pc' = 34
            /\ t_2mass' \in CatTables
            /\ bound' = bound \cup {"t_2mass"}
            /\ out' = [kind |-> "widget", val |-> t_2mass']
            /\ readfiles' = readfiles \cup {"data/2mass.tbl"}
            /\ UNCHANGED err
       ELSE /\ Raise("FileNotFoundError")
            /\ UNCHANGED <<t_2mass, bound, readfiles>>
    /\ UNCHANGED <<t, mask, t2, t3, t4, pd_2mass, t_pd, excel_data,
                   master_sources, obs_sources, exercise, fs, written>>

\* import pandas as pd; pd_2mass = t_2mass.to_pandas(); pd_2mass
ToPandasCall_Filled == ToPandas(Filled(t_2mass))

ToPandasCall == ToPandas(t_2mass)

Cell34_ToPandas ==
    /\ Runs(34)
    /\ IF ToPandasCall.ok
       THEN /\ pc' = 35
            /\ pd_2mass' = ToPandasCall.frame
            /\ bound' = bound \cup {"pd", "pd_2mass"}
            /\ out' = [kind |-> "frame", val |-> pd_2mass']
            /\ UNCHANGED err
       ELSE /\ Raise(ToPandasCall.error)
            /\ bound' = bound \cup {"pd"}
            /\ UNCHANGED pd_2mass
    /\ UNCHANGED <<t, mask, t2, t3, t4, t_2mass, t_pd, excel_data,
                   master_sources, obs_sources, exercise, files>>

\* t_pd = Table.from_pandas(pd_2mass); t_pd.show_in_notebook()
Cell35_FromPandas ==
    /\ Runs(35)
    /\ pc' = 36
    /\ t_pd' = FromPandas(pd_2mass)
    /\ bound' = bound \cup {"t_pd"}
    /\ out' = [kind |-> "widget", val |-> t_pd']
    /\ UNCHANGED <<err, t, mask, t2, t3, t4, t_2mass, pd_2mass, excel_data,
                   master_sources, obs_sources, exercise, files>>

\* pd_2mass.to_excel("2mass.xls", index=False)
\* excel_data = Table.from_pandas(pd.read_excel("2mass.xls"))
Cell36_Excel ==
    /\ Runs(36)
    /\ pc' = 37
    /\ fs' = [fs EXCEPT !["2mass.xls"] = Stored([fmt |-> "xls", frame |-> pd_2mass])]
    /\ written' = written \cup {"2mass.xls"}
    /\ readfiles' = readfiles \cup {"2mass.xls"}
    /\ excel_data' = FromPandas(fs'["2mass.xls"].data[1].frame)
    /\ bound' = bound \cup {"excel_data"}
    /\ out' = [kind |-> "widget", val |-> excel_data']
    /\ UNCHANGED <<err, t, mask, t2, t3, t4, t_2mass, pd_2mass, t_pd,
                   master_sources, obs_sources, exercise>>

\* %matplotlib inline; pd_2mass.plot.scatter('j_m', 'h_m')
Cell37_Scatter ==
    Show(37, [kind |-> "plot",
              val |-> [i \in DOMAIN pd_2mass.rows |->
                         <<pd_2mass.rows[i]["j_m"], pd_2mass.rows[i]["h_m"]>>]])

\* master_sources = Table.read('data/cdfs_master_sources.fits')
\* obs_sources = Table.read('data/cdfs_obs_sources.fits')
Cell38_ReadCatalogs ==
    /\ Runs(38)
    /\ IF ~fs["data/cdfs_master_sources.fits"].exists
       THEN /\ Raise("FileNotFoundError")
            /\ UNCHANGED <<master_sources, obs_sources, bound, readfiles>>
       ELSE IF ~fs["data/cdfs_obs_sources.fits"].exists
       THEN /\ Raise("FileNotFoundError")
            /\ master_sources' = MasterTable
            /\ bound' = bound \cup {"master_sources"}
            /\ readfiles' = readfiles \cup {"data/cdfs_master_sources.fits"}
            /\ UNCHANGED obs_sources
       ELSE /\ pc' = 39
            /\ master_sources' = MasterTable
            /\ obs_sources' \in ObsTables
            /\ bound' = bound \cup {"master_sources", "obs_sources"}
            /\ readfiles' = readfiles \cup {"data/cdfs_master_sources.fits",
                                            "data/cdfs_obs_sources.fits"}
            /\ out' = NoOutput
            /\ UNCHANGED err
    /\ UNCHANGED <<t, mask, t2, t3, t4, t_2mass, pd_2mass, t_pd, excel_data,
                   exercise, fs, written>>

\* The four exercise cells are empty in the notebook.
Cell39_Empty == Show(39, NoOutput)

Cell40_Empty == Show(40, NoOutput)

Cell41_Empty == Show(41, NoOutput)

Cell42_Empty == Show(42, NoOutput)

Cell43_ImportFits ==
    /\ Runs(43)
    /\ pc' = 44
    /\ bound' = bound \cup {"fits"}
    /\ out' = NoOutput
    /\ UNCHANGED <<err, kernel, exercise, files>>

Cell44_Empty == Show(44, NoOutput)

Next ==
    \/ Cell01_Imports \/ Cell02_CreateTable \/ Cell03_ShowTable \/ Cell04_PrintTable
    \/ Cell05_Colnames \/ Cell06_Dtype \/ Cell07_ShowInNotebook \/ Cell08_FluxColumn
    \/ Cell09_FluxElement \/ Cell10_Row \/ Cell11_RowElement \/ Cell12_Slice
    \/ Cell13_IndexList \/ Cell14_BooleanMask \/ Cell15_AddRowAndColumn
    \/ Cell16_SetFormat \/ Cell17_NpArray \/ Cell18_MaskedTable \/ Cell19_SetMask
    \/ Cell20_PrintMasked \/ Cell21_Filled \/ Cell22_ImportJoin \/ Cell23_RecallTable
    \/ Cell24_SecondTable \/ Cell25_OuterJoin \/ Cell26_Mean \/ Cell27_InnerJoin
    \/ Cell28_WriteFits \/ Cell29_WriteVotable \/ Cell30_ReadFits \/ Cell31_Help
    \/ Cell32_Head \/ Cell33_ReadIpac \/ Cell34_ToPandas \/ Cell35_FromPandas
    \/ Cell36_Excel \/ Cell37_Scatter \/ Cell38_ReadCatalogs \/ Cell39_Empty
    \/ Cell40_Empty \/ Cell41_Empty \/ Cell42_Empty \/ Cell43_ImportFits
    \/ Cell44_Empty

Spec == Init /\ [][Next]_vars

(***************************************************************************)
(* The exercises, as the notebook's text asks the student to do them, in   *)
(* cells of their own after the catalogs are read (pc 39, then 51 ..).     *)
(***************************************************************************)
\* join()'s default keys: the left table's names that the right one has.
CommonKeys(L, R) ==
    LET k == SelectSeq(L.cols, LAMBDA c : c.name \in NameSet(R))
    IN [i \in DOMAIN k |-> k[i].name]

\* sources = join(obs_sources, master_sources)
Ex_Join ==
    /\ Runs(39)
    /\ pc' = 51
    /\ sources' = Join(obs_sources, master_sources,
                       CommonKeys(obs_sources, master_sources), "inner")
    /\ bound' = bound \cup {"sources"}
    /\ out' = NoOutput
    /\ UNCHANGED <<err, kernel, g_sources, g_sources_mean, g_sources_full, files>>

\* sources.group_by('msid')
GroupByCall_Obsid == GroupBy(sources, <<"obsid">>)

GroupByCall == GroupBy(sources, <<"msid">>)

\* g_sources = sources.group_by('msid'); np.diff(g_sources.groups.indices)
Ex_GroupBy ==
    /\ Runs(51)
    /\ pc' = 52
    /\ g_sources' = GroupByCall
    /\ bound' = bound \cup {"g_sources"}
    /\ out' = [kind |-> "value", val |-> Diff(g_sources'.indices)]
    /\ UNCHANGED <<err, kernel, sources, g_sources_mean, g_sources_full, files>>

\* g_sources.groups.aggregate(np.mean)
AggregateCall_Ungrouped ==
    Aggregate([g_sources EXCEPT !.indices = <<0, Len(g_sources.table.rows)>>])

AggregateCall == Aggregate(g_sources)

\* g_sources_mean = g_sources.groups.aggregate(np.mean)
Ex_Aggregate ==
    /\ Runs(52)
    /\ pc' = 53
    /\ g_sources_mean' = AggregateCall
    /\ bound' = bound \cup {"g_sources_mean"}
    /\ out' = NoOutput
    /\ UNCHANGED <<err, kernel, sources, g_sources, g_sources_full, files>>

\* join(g_sources_mean, master_sources, keys='msid')
Ex_Restore ==
    /\ Runs(53)
    /\ pc' = 54
    /\ g_sources_full' = Join(g_sources_mean, master_sources, <<"msid">>, "inner")
    /\ out' = [kind |-> "table", val |-> g_sources_full']
    /\ UNCHANGED <<err, bound, kernel, sources, g_sources, g_sources_mean, files>>

\* The names the import cells bind.
Imported == {"print_function", "division", "Table", "np", "matplotlib",
             "style", "plt", "join"}

\* A student who starts the exercises in a kernel that ran the imports.
InitExercises ==
    /\ pc = 38
    /\ bound = Imported
    /\ fs \in InitFiles
    /\ t_2mass = EmptyTable
    /\ InitKernel

NextExercises ==
    \/ Cell38_ReadCatalogs \/ Ex_Join \/ Ex_GroupBy \/ Ex_Aggregate \/ Ex_Restore

SpecExercises == InitExercises /\ [][NextExercises]_vars

(***************************************************************************)
(* to_pandas() and from_pandas() on their own: the kernel right before     *)
(* cell 34, t_2mass being any table, multi-dimensional columns included.   *)
(***************************************************************************)
InitToPandas ==
    /\ pc = 34
    /\ bound = Imported \cup {"t_2mass"}
    /\ fs = [f \in Files |-> IF f \in InputFiles THEN Present ELSE Absent]
    /\ t_2mass \in AnyTables
    /\ InitKernel

NextToPandas == Cell34_ToPandas \/ Cell35_FromPandas

SpecToPandas == InitToPandas /\ [][NextToPandas]_vars

(***************************************************************************)
(* The claims.                                                             *)
(***************************************************************************)
KeyNames(T) == {T.rows[i]["name"].v : i \in DOMAIN T.rows}

UniqueNames(T) ==
    \A i, j \in DOMAIN T.rows : T.rows[i]["name"].v = T.rows[j]["name"].v => i = j

RowNamed(T, n) == T.rows[CHOOSE i \in DOMAIN T.rows : T.rows[i]["name"].v = n]

\* The columns of T other than name.
ValueCols(T) == NameSet(T) \ {"name"}

\* C1: right after t3 = join(t, t2, keys=['name'], join_type='outer'), the
\* names being unique in t and in t2, t3 has exactly one row per name of t
\* or t2; a row carries the values of the row of t and of the row of t2 with
\* its name, and the fields of a table that has no such row are masked.
C1_OuterJoinKeepsEveryRow ==
    (pc = 26 /\ UniqueNames(t) /\ UniqueNames(t2)) =>
        /\ KeyNames(t3) = KeyNames(t) \cup KeyNames(t2)
        /\ UniqueNames(t3)
        /\ NameSet(t3) = NameSet(t) \cup NameSet(t2)
        /\ \A i \in DOMAIN t3.rows :
              LET r == t3.rows[i]
                  n == r["name"].v
              IN /\ ~r["name"].m
                 /\ \A c \in ValueCols(t) :
                       IF n \in KeyNames(t) THEN r[c] = RowNamed(t, n)[c] ELSE r[c].m
                 /\ \A c \in ValueCols(t2) :
                       IF n \in KeyNames(t2) THEN r[c] = RowNamed(t2, n)[c] ELSE r[c].m

C1_Witness ==
    /\ pc = 26
    /\ UniqueNames(t) /\ UniqueNames(t2)
    /\ \E i \in DOMAIN t3.rows : t3.rows[i]["flux2"].m /\ ~t3.rows[i]["flux"].m
    /\ \E i \in DOMAIN t3.rows : t3.rows[i]["flux"].m /\ ~t3.rows[i]["flux2"].m
    /\ \E i \in DOMAIN t3.rows : ~t3.rows[i]["flux"].m /\ ~t3.rows[i]["flux2"].m

\* C2: the inner join shown by cell 27 has exactly the names that t and t2
\* share, larry and moe; none of its fields is masked; each of its rows is a
\* row of the outer join t3.
C2_InnerJoinKeepsSharedRows ==
    pc = 28 =>
        /\ out.kind = "table"
        /\ KeyNames(out.val) = KeyNames(t) \cap KeyNames(t2)
        /\ KeyNames(out.val) = {"larry", "moe"}
        /\ Len(out.val.rows) = 2
        /\ \A i \in DOMAIN out.val.rows : \A c \in NameSet(out.val) : ~out.val.rows[i][c].m
        /\ NameSet(out.val) = NameSet(t3)
        /\ \A i \in DOMAIN out.val.rows : \E j \in DOMAIN t3.rows : t3.rows[j] = out.val.rows[i]

C2_Witness ==
    /\ pc = 28
    /\ out.kind = "table"
    /\ Len(out.val.rows) = 2
    /\ Len(t3.rows) > 2

\* C3: np.mean(t3['flux2']) is the mean of the unmasked flux2 values, those
\* of larry, moe and groucho (1.4, 3.5, 8.6); the rows of curly, shemp and
\* joe, whose flux2 is masked, add nothing to the sum or to the count.
C3_MeanSkipsMasked ==
    pc = 27 =>
        /\ {<<t3.rows[i]["name"].v, t3.rows[i]["flux2"].v>> :
               i \in {j \in DOMAIN t3.rows : ~t3.rows[j]["flux2"].m}}
           = {<<"larry", 14>>, <<"moe", 35>>, <<"groucho", 86>>}
        /\ {t3.rows[i]["name"].v : i \in {j \in DOMAIN t3.rows : t3.rows[j]["flux2"].m}}
           = {"curly", "shemp", "joe"}
        /\ out.kind = "value"
        /\ ~out.val.m
        /\ out.val.v * 3 = 14 + 35 + 86

C3_Witness ==
    /\ pc = 27
    /\ out.kind = "value"
    /\ Cardinality({j \in DOMAIN t3.rows : t3.rows[j]["flux2"].m}) = 3
    /\ Cardinality({j \in DOMAIN t3.rows : ~t3.rows[j]["flux2"].m}) = 3

\* The position in T of a row of T.
RowIndex(T, r) == CHOOSE i \in DOMAIN T.rows : T.rows[i] = r

\* C4: t[mask] with mask = t['flux'] > 3.0 is a new table with all columns
\* of t and exactly the rows of t whose flux is above 3.0, in the order
\* they have in t; t itself is as cell 2 made it.
C4_MaskSelectsRows ==
    pc = 15 =>
        /\ out.kind = "table"
        /\ out.val.cols = t.cols
        /\ \A i \in DOMAIN t.rows :
              (t.rows[i]["flux"].v > FluxThreshold)
                  <=> (\E j \in DOMAIN out.val.rows : out.val.rows[j] = t.rows[i])
        /\ \A j \in DOMAIN out.val.rows : \E i \in DOMAIN t.rows : t.rows[i] = out.val.rows[j]
        /\ \A j, k \in DOMAIN out.val.rows :
              j < k => RowIndex(t, out.val.rows[j]) < RowIndex(t, out.val.rows[k])
        /\ t = StoogesTable

C4_Witness ==
    /\ pc = 15
    /\ out.kind = "table"
    /\ Len(out.val.rows) = 2
    /\ Len(t.rows) = 4

\* C6: to_pandas() turns every masked value into NaN, so an int or float
\* column with a masked value is a float column of the DataFrame and a
\* string column with one an object column; and a table with a masked value
\* in an int column does not come back from from_pandas(to_pandas()): the
\* column's type differs.
C6_MaskedBecomesNaN ==
    /\ pc \in {35, 36} =>
          \A i \in DOMAIN t_2mass.cols :
             LET c == t_2mass.cols[i]
                 masked == \E r \in DOMAIN t_2mass.rows : t_2mass.rows[r][c.name].m
             IN /\ pd_2mass.cols[i].name = c.name
                /\ \A r \in DOMAIN t_2mass.rows :
                      pd_2mass.rows[r][c.name].nan <=> t_2mass.rows[r][c.name].m
                /\ (masked /\ c.dtype \in {"int", "float"}) => pd_2mass.cols[i].dtype = "float"
                /\ (masked /\ c.dtype = "str") => pd_2mass.cols[i].dtype = "object"
    /\ pc = 36 =>
          \A i \in DOMAIN t_2mass.cols :
             (t_2mass.cols[i].dtype = "int"
                 /\ \E r \in DOMAIN t_2mass.rows : t_2mass.rows[r][t_2mass.cols[i].name].m)
             => (t_pd.cols[i].dtype = "float" /\ t_pd # t_2mass)

C6_Witness ==
    /\ pc = 36
    /\ \E r \in DOMAIN t_2mass.rows : t_2mass.rows[r]["cntr"].m
    /\ \E r \in DOMAIN t_2mass.rows : ~t_2mass.rows[r]["cntr"].m
    /\ \E r \in DOMAIN t_2mass.rows : t_2mass.rows[r]["designation"].m
    /\ t_pd # t_2mass

\* C7: to_pandas() on a table with a multi-dimensional column can run, and
\* running it ends in an error: no DataFrame is bound, the run stops at the
\* cell, and the table is what it was.
C7_MultiDimNotConverted ==
    /\ []((pc = 34 /\ err = "none") => ENABLED Cell34_ToPandas)
    /\ [][(pc = 34 /\ err = "none" /\ \E i \in DOMAIN t_2mass.cols : t_2mass.cols[i].ndim > 1)
            => /\ err' = "ValueError"
               /\ pc' = 34
               /\ pd_2mass' = pd_2mass
               /\ "pd_2mass" \notin bound'
               /\ out'.kind = "traceback"
               /\ t_2mass' = t_2mass]_vars

C7_Witness ==
    /\ err = "ValueError"
    /\ pc = 34
    /\ \E i \in DOMAIN t_2mass.cols : t_2mass.cols[i].ndim > 1
    /\ \E i \in DOMAIN t_2mass.cols : t_2mass.cols[i].ndim = 1
    /\ pd_2mass = EmptyFrame

RECURSIVE SumInts(_)
SumInts(a) == IF Len(a) = 0 THEN 0 ELSE Head(a) + SumInts(Tail(a))

Msids(T) == {T.rows[i]["msid"].v : i \in DOMAIN T.rows}

RowsOfMsid(T, k) == {i \in DOMAIN T.rows : T.rows[i]["msid"].v = k}

\* C8: g_sources = sources.group_by('msid') has the rows of sources, each as
\* often as sources has it, the rows of one msid next to each other; the
\* indices run from 0 to the table's length, each group is the rows of one
\* msid, and np.diff(indices) is the number of rows of each msid: at least
\* one each, len(sources) together.
C8_GroupByPartitions ==
    pc = 52 =>
        LET R == g_sources.table.rows
            S == sources.rows
            ind == g_sources.indices
            n == Len(ind) - 1
        IN /\ g_sources.table.cols = sources.cols
           /\ Len(R) = Len(S)
           /\ \A i \in DOMAIN S :
                 Cardinality({j \in DOMAIN R : R[j] = S[i]})
                    = Cardinality({j \in DOMAIN S : S[j] = S[i]})
           /\ \A i, k \in DOMAIN R :
                 (i < k /\ R[i]["msid"].v = R[k]["msid"].v)
                    => \A j \in i..k : R[j]["msid"].v = R[i]["msid"].v
           /\ ind[1] = 0
           /\ ind[n + 1] = Len(R)
           /\ n = Cardinality(Msids(sources))
           /\ out.val = Diff(ind)
           /\ \A g \in 1..n :
                 /\ out.val[g] >= 1
                 /\ \A j \in (ind[g] + 1)..ind[g + 1] : R[j]["msid"].v = R[ind[g] + 1]["msid"].v
                 /\ out.val[g] = Cardinality(RowsOfMsid(sources, R[ind[g] + 1]["msid"].v))
           /\ SumInts(out.val) = Len(S)

C8_Witness ==
    /\ pc = 52
    /\ Len(sources.rows) = 3
    /\ Len(g_sources.indices) = 3
    /\ \E g \in DOMAIN out.val : out.val[g] = 2
    /\ \E g \in DOMAIN out.val : out.val[g] = 1

StringCols(T) == {T.cols[i].name : i \in {j \in DOMAIN T.cols : T.cols[j].dtype = "str"}}

\* The columns of sources that g_sources_mean does not have.
Dropped == NameSet(sources) \ NameSet(g_sources_mean)

\* C9 as stated: the aggregate has one row per group, the non-numeric
\* columns are dropped from it, and the join with master_sources on msid
\* brings every dropped column back.
C9_JoinRestoresAllDropped ==
    pc = 54 =>
        /\ Len(g_sources_mean.rows) = Len(g_sources.indices) - 1
        /\ Dropped = StringCols(sources)
        /\ Dropped \subseteq NameSet(g_sources_full)

\* C9, amended: the aggregate has one row per group (per msid of sources),
\* with the mean of each numeric column; the non-numeric columns are
\* dropped from it; the join with master_sources on msid brings back those
\* of them that master_sources has (the source name, the one of the row's
\* msid), one row per group, and no other.
C9_JoinRestoresMasterColumns ==
    /\ pc \in {53, 54} =>
          /\ Len(g_sources_mean.rows) = Len(g_sources.indices) - 1
          /\ Len(g_sources_mean.rows) = Cardinality(Msids(sources))
          /\ Msids(g_sources_mean) = Msids(sources)
          /\ Dropped = StringCols(sources)
          /\ "name" \in Dropped
          /\ \A i \in DOMAIN g_sources_mean.rows :
                LET k == g_sources_mean.rows[i]["msid"].v
                    rs == RowsOfMsid(sources, k)
                    total == SumInts([j \in 1..Len(sources.rows) |->
                                 IF j \in rs THEN sources.rows[j]["flux_aper_b"].v ELSE 0])
                IN g_sources_mean.rows[i]["flux_aper_b"]
                      = Cell(total \div Cardinality(rs))
    /\ pc = 54 =>
          /\ Dropped \cap NameSet(master_sources) \subseteq NameSet(g_sources_full)
          /\ (Dropped \ NameSet(master_sources)) \cap NameSet(g_sources_full) = {}
          /\ Len(g_sources_full.rows) = Len(g_sources_mean.rows)
          /\ \A i \in DOMAIN g_sources_full.rows :
                \E j \in DOMAIN master_sources.rows :
                   /\ master_sources.rows[j]["msid"] = g_sources_full.rows[i]["msid"]
                   /\ master_sources.rows[j]["name"] = g_sources_full.rows[i]["name"]

C9_Witness ==
    /\ pc = 54
    /\ Len(g_sources_full.rows) = 2
    /\ Len(sources.rows) = 3
    /\ "name" \in NameSet(g_sources_full)
    /\ "targname" \in Dropped

\* C10: the cells write to test.fits, test.vot and 2mass.xls only; the run
\* that gets through the last cell has written all three; an input file is
\* never written and what it holds is never replaced.
C10_OnlyOutputFilesWritten ==
    /\ written \subseteq OutputFiles
    /\ pc = LastCell + 1 => written = OutputFiles
    /\ \A f \in Files : fs[f].data # << >> => f \in written
    /\ \A f \in written : fs[f].exists /\ fs[f].data # << >>
    /\ \A f \in InputFiles : fs[f] \in {Present, Absent}
    /\ readfiles \cap InputFiles \subseteq {f \in InputFiles : fs[f].exists}

C10_Witness ==
    /\ pc = LastCell + 1
    /\ written = OutputFiles
    /\ InputFiles \subseteq readfiles

(***************************************************************************)
(* Errors.                                                                 *)
(***************************************************************************)
KernelNames ==
    {"t", "mask", "t2", "t3", "t4", "t_2mass", "pd_2mass", "t_pd", "excel_data",
     "master_sources", "obs_sources"}

\* The kernel's namespace: the value of each name (meaningful where the
\* name is in bound).
Env ==
    [n \in KernelNames |->
        CASE n = "t" -> t
          [] n = "mask" -> mask
          [] n = "t2" -> t2
          [] n = "t3" -> t3
          [] n = "t4" -> t4
          [] n = "t_2mass" -> t_2mass
          [] n = "pd_2mass" -> pd_2mass
          [] n = "t_pd" -> t_pd
          [] n = "excel_data" -> excel_data
          [] n = "master_sources" -> master_sources
          [] n = "obs_sources" -> obs_sources]

\* The step in which a cell fails.
Fails == err = "none" /\ err' # "none"

\* A failing step shows the library's error as the cell's traceback and the
\* run stays at the cell; a missing input file fails the cell that reads
\* it; nothing runs after the failure; what earlier cells bound is kept.
SurfacesUncaught ==
    /\ Fails => /\ err' \in {"FileNotFoundError", "ValueError"}
                /\ out' = [kind |-> "traceback", val |-> err']
                /\ pc' = pc
                /\ fs' = fs /\ written' = written
                /\ bound \subseteq bound'
                /\ \A n \in bound \cap KernelNames : Env'[n] = Env[n]
    /\ (err = "none" /\ pc = 33 /\ ~fs["data/2mass.tbl"].exists)
          => err' = "FileNotFoundError"
    /\ (err = "none" /\ pc = 38
          /\ (~fs["data/cdfs_master_sources.fits"].exists
                \/ ~fs["data/cdfs_obs_sources.fits"].exists))
          => err' = "FileNotFoundError"
    /\ err # "none" => FALSE

\* C11 as stated: a failure in a cell surfaces as the library's error,
\* uncaught; no assignment of the failing cell takes place (no name is
\* bound or rebound by it); what earlier cells bound is unchanged.
C11_FailingCellAssignsNothing ==
    [][/\ SurfacesUncaught
       /\ Fails => (bound' = bound /\ Env' = Env)]_vars

\* C11, amended: a failure in a cell surfaces as the library's error,
\* uncaught; the assignment of the failing statement does not take place
\* (t_2mass in cell 33, obs_sources or master_sources in cell 38); the
\* statements of the cell before the failing one have taken effect
\* (master_sources is bound when the read of obs_sources fails); what
\* earlier cells bound is unchanged.
C11_FailingStatementAssignsNothing ==
    [][/\ SurfacesUncaught
       /\ (Fails /\ pc = 33) =>
             (t_2mass' = t_2mass /\ "t_2mass" \notin bound' /\ bound' = bound)
       /\ (Fails /\ pc = 38) =>
             /\ obs_sources' = obs_sources /\ "obs_sources" \notin bound'
             /\ IF fs["data/cdfs_master_sources.fits"].exists
                THEN /\ master_sources' = MasterTable
                     /\ bound' = bound \cup {"master_sources"}
                     /\ "data/cdfs_master_sources.fits" \in readfiles'
                ELSE /\ master_sources' = master_sources
                     /\ bound' = bound
       /\ Fails => \A n \in KernelNames \ {"master_sources"} : Env'[n] = Env[n]]_vars

C11_Witness ==
    /\ err = "FileNotFoundError"
    /\ pc = 38
    /\ out.kind = "traceback"
    /\ fs["data/cdfs_master_sources.fits"].exists
    /\ ~fs["data/cdfs_obs_sources.fits"].exists
    /\ "master_sources" \in bound
    /\ "obs_sources" \notin bound
    /\ master_sources = MasterTable
    /\ "t_2mass" \in bound

\* C12: after t2['value'].fill_value = -99, t2.filled() is a table whose
\* value column is 1.1, -99, 3.3 with nothing masked and whose names are
\* x, y, z; t2 itself still has the mask False, True, False over the values
\* 1.1, 2.2, 3.3.
C12_FilledReplacesMasked ==
    pc = 22 =>
        /\ out.kind = "text"
        /\ out.val.cols = t2.cols
        /\ Len(out.val.rows) = 3
        /\ \A i \in 1..3 :
              /\ out.val.rows[i]["name"] = XyzTable.rows[i]["name"]
              /\ out.val.rows[i]["value"] =
                    IF i = 2 THEN [v |-> FillValue, m |-> FALSE]
                    ELSE XyzTable.rows[i]["value"]
        /\ [i \in 1..3 |-> t2.rows[i]["value"].m] = <<FALSE, TRUE, FALSE>>
        /\ [i \in 1..3 |-> t2.rows[i]["value"].v] = <<11, 22, 33>>
        /\ [i \in 1..3 |-> t2.rows[i]["name"]] = [i \in 1..3 |-> XyzTable.rows[i]["name"]]
        /\ t2.masked
        /\ out.val # t2

C12_Witness ==
    /\ pc = 22
    /\ out.val.rows[2]["value"].v = FillValue
    /\ t2.rows[2]["value"].m
    /\ ~out.val.rows[2]["value"].m

(***************************************************************************)
(* Names.                                                                  *)
(***************************************************************************)
\* The names cell k refers to that no earlier statement of cell k binds.
Free(k) ==
    CASE k = 2 -> {"Table"}
      [] k \in 3..14 -> {"t"}
      [] k = 15 -> {"t", "np"}
      [] k = 16 -> {"t"}
      [] k = 17 -> {"np", "t"}
      [] k = 18 -> {"Table"}
      [] k \in 19..21 -> {"t2"}
      [] k = 23 -> {"t"}
      [] k = 24 -> {"Table"}
      [] k = 25 -> {"join", "t", "t2"}
      [] k = 26 -> {"np", "t3"}
      [] k = 27 -> {"join", "t", "t2"}
      [] k \in 28..29 -> {"t3"}
      [] k \in {30, 31, 33} -> {"Table"}
      [] k = 34 -> {"t_2mass"}
      [] k = 35 -> {"Table", "pd_2mass"}
      [] k = 36 -> {"pd_2mass", "Table", "pd"}
      [] k = 37 -> {"pd_2mass"}
      [] k = 38 -> {"Table"}
      [] OTHER -> {}

\* The files of the run's own making that cell k reads and no earlier
\* statement of cell k writes.
FreeFiles(k) == IF k = 30 THEN {"test.fits"} ELSE {}

\* C13: the cell about to run refers only to names that earlier cells have
\* bound, and reads a file of the run's own making only after the run has
\* written it: test.fits before Table.read('test.fits'), 2mass.xls before
\* pd.read_excel.
C13_NamesBoundBeforeUse ==
    /\ (err = "none" /\ pc \in 1..LastCell) =>
          /\ Free(pc) \subseteq bound
          /\ FreeFiles(pc) \subseteq written
    /\ readfiles \cap OutputFiles \subseteq written
    /\ pc > 1 => {"Table", "np", "plt"} \subseteq bound
    /\ "t4" \in bound => "test.fits" \in written
    /\ "excel_data" \in bound => ("2mass.xls" \in written /\ "pd" \in bound)

C13_Witness ==
    /\ pc = LastCell + 1
    /\ err = "none"
    /\ KernelNames \ {"mask"} \subseteq bound
    /\ {"Table", "np", "plt", "join", "pd", "fits"} \subseteq bound
    /\ {"test.fits", "test.vot", "2mass.xls"} \subseteq readfiles

====
